---------------------------- MODULE Spec2Model ----------------------------
(***************************************************************************)
(* Credit accounting and access-tier enforcement of the EasyPrompt         *)
(* backend: src/server.js (handlePromptImprovement, GET /api/me,           *)
(* POST /api/auth/signup, POST /api/credits/add, the anonymous credit map) *)
(* and src/userHelpers.js (the users-table helpers).                       *)
(*                                                                         *)
(* Every handler is an async function.  Node runs the code between two     *)
(* awaits without interruption, so one action of the model is one          *)
(* continuation: the effect of the awaited call (one statement executed    *)
(* by the store, one answer of the identity provider or of the generation  *)
(* provider) followed by the synchronous code up to the next await.        *)
(*                                                                         *)
(* The clock counts ticks of 24 hours.                                     *)
(***************************************************************************)
EXTENDS Integers, Sequences, FiniteSets, TLC

\* ------------------------------------------------------------------ bounds
MaxTime        == 1   \* last clock tick
MaxFaults      == 1   \* storage / provider failures injected in one behaviour
MaxInitCredits == 1   \* largest bonus balance a row holds at start
MaxTopUp       == 1   \* largest amount of one administrative top-up
MaxCalls       == 2   \* calls made by the sequential driver
MaxAmount      == 2   \* largest amount the sequential driver deducts

\* --------------------------------------------------------- program constants
DAILY_CREDITS          == 3
SIGNUP_BONUS           == 10
ANONYMOUS_FREE_CREDITS == 5
DayLength              == 1      \* 24 * 60 * 60 * 1000 ms, in clock ticks
PRO_CREDITS            == 999999 \* credits_remaining /api/me reports for Pro
NULL                   == 0 - 1  \* daily_reset_at IS NULL
UNLIMITED              == 0 - 1  \* remainingCredits of a Pro request
NoEntry                == 0 - 9  \* anonymousCredits.has(ip) = false; no balance
                                 \* a deduction can leave
NoValue                == 0 - 2  \* a response body without creditsRemaining

Users == {"u1"}
IPs   == {"ip1", "ip2"}
Procs == {"p1", "p2"}
Modes == {"improve", "refine", "followup"}

VARIABLES
  db,                \* users table: user id -> row
  anonymousCredits,  \* the in-memory Map: ip -> credits, NoEntry when absent
  now,               \* the clock
  openai,            \* whether the OpenAI client was configured at start-up
  proc,              \* per request slot: position and locals of the handler
  ledger,            \* history: per account sums of what handlers achieved
  faults,            \* history: number of injected failures so far
  db0,               \* history: the users table at start
  anon0,             \* history: the anonymous map at start
  hist               \* history: calls made by the sequential driver

vars == <<db, anonymousCredits, now, openai, proc, ledger, faults, db0, anon0, hist>>

\* --------------------------------------------------------------- the store
NoRow ==
  [exists |-> FALSE, is_pro |-> FALSE, credits |-> 0, daily_credits_used |-> 0,
   daily_reset_at |-> NULL, signup_bonus_given |-> FALSE]

\* faulty variant: the inserted row's window ends at once
NewRowExpired(t) ==
  [exists |-> TRUE, is_pro |-> FALSE, credits |-> 0, daily_credits_used |-> 0,
   daily_reset_at |-> t, signup_bonus_given |-> FALSE]

\* the row ensureUserExists inserts
NewRow(t) ==
  [exists |-> TRUE, is_pro |-> FALSE, credits |-> 0, daily_credits_used |-> 0,
   daily_reset_at |-> t + DayLength, signup_bonus_given |-> FALSE]

NoInfo ==
  [credits |-> 0, dailyCreditsUsed |-> 0, dailyResetAt |-> NULL,
   signupBonusGiven |-> FALSE]

\* getUserCreditInfo: the select succeeded; PGRST116 (no row) gives defaults
getUserCreditInfo(row) ==
  IF ~row.exists THEN NoInfo
  ELSE [credits          |-> row.credits,
        dailyCreditsUsed |-> row.daily_credits_used,
        dailyResetAt     |-> row.daily_reset_at,
        signupBonusGiven |-> row.signup_bonus_given]

\* faulty variant: every account counts as Pro
getUserProStatusAlways(row) == TRUE

\* getUserProStatus: the select succeeded; PGRST116 (no row) gives false
getUserProStatus(row) == row.exists /\ row.is_pro

\* faulty variant: the window is still open at its deadline
ResetNeededStrict(info, t) == info.dailyResetAt = NULL \/ t > info.dailyResetAt

\* resetDailyCreditsIfNeeded: the test on the snapshot it read
ResetNeeded(info, t) == info.dailyResetAt = NULL \/ t >= info.dailyResetAt

\* faulty variant: the new deadline is the present instant
NextResetNow(t) == t

\* resetDailyCreditsIfNeeded: nextReset, computed from the clock it read
NextReset(t) == t + DayLength

\* faulty variant: the update extends the deadline and keeps the usage counter
ResetWriteKeepUsed(row, nextReset) ==
  IF ~row.exists THEN row ELSE [row EXCEPT !.daily_reset_at = nextReset]

\* resetDailyCreditsIfNeeded: the update; it matches no row when none exists
ResetWrite(row, nextReset) ==
  IF ~row.exists THEN row
  ELSE [row EXCEPT !.daily_credits_used = 0, !.daily_reset_at = nextReset]

\* faulty variant: the availability forgets the usage of the day
TotalAvailableNoUsage(info) == DAILY_CREDITS + info.credits

\* deductFreeUserCredits: the availability computed from a snapshot
TotalAvailable(info) == (DAILY_CREDITS - info.dailyCreditsUsed) + info.credits

\* faulty variant: the usage counter is not capped at the allowance
DeductPlanUncapped(info, amount) ==
  [newDailyCreditsUsed |-> info.dailyCreditsUsed + amount,
   newBonusCredits     |-> info.credits,
   creditSource        |-> "daily"]

\* faulty variant: the draw takes from the bonus credits first
DeductPlanBonusFirst(info, amount) ==
  IF info.credits >= amount
  THEN [newDailyCreditsUsed |-> info.dailyCreditsUsed,
        newBonusCredits     |-> info.credits - amount,
        creditSource        |-> "mixed"]
  ELSE [newDailyCreditsUsed |-> info.dailyCreditsUsed + (amount - info.credits),
        newBonusCredits     |-> 0,
        creditSource        |-> "daily"]

\* deductFreeUserCredits: the two-source draw computed from a snapshot
DeductPlan(info, amount) ==
  LET dailyCreditsAvailable == DAILY_CREDITS - info.dailyCreditsUsed
      bonusCredits          == info.credits
  IN  IF dailyCreditsAvailable >= amount
      THEN [newDailyCreditsUsed |-> info.dailyCreditsUsed + amount,
            newBonusCredits     |-> bonusCredits,
            creditSource        |-> "daily"]
      ELSE [newDailyCreditsUsed |-> DAILY_CREDITS,
            newBonusCredits     |-> bonusCredits - (amount - dailyCreditsAvailable),
            creditSource        |-> "mixed"]

\* faulty variant: the update writes nothing
DeductWriteNone(row, used, bonus) == row

\* deductFreeUserCredits: the update of both counters
DeductWrite(row, used, bonus) ==
  [row EXCEPT !.daily_credits_used = used, !.credits = bonus]

\* grantSignupBonus: newCredits computed from the snapshot
GrantCredits(info) == info.credits + SIGNUP_BONUS

\* faulty variant: the update increments the stored credits
GrantWriteIncrement(row, newCredits) ==
  IF ~row.exists THEN row
  ELSE [row EXCEPT !.credits = @ + SIGNUP_BONUS, !.signup_bonus_given = TRUE]

\* faulty variant: the update leaves signup_bonus_given alone
GrantWriteNoFlag(row, newCredits) ==
  IF ~row.exists THEN row ELSE [row EXCEPT !.credits = newCredits]

\* grantSignupBonus: the update; it matches no row when none exists
GrantWrite(row, newCredits) ==
  IF ~row.exists THEN row
  ELSE [row EXCEPT !.credits = newCredits, !.signup_bonus_given = TRUE]

\* resetDailyCreditsIfNeeded, run without interruption at time t
resetDailyCreditsIfNeeded(row, t) ==
  IF ResetNeeded(getUserCreditInfo(row), t)
  THEN [row |-> ResetWrite(row, NextReset(t)), reset |-> TRUE]
  ELSE [row |-> row, reset |-> FALSE]

\* deductFreeUserCredits, run without interruption at time t; the update
\* fails when it matches no row (.single())
deductFreeUserCredits(row, amount, t) ==
  LET r    == resetDailyCreditsIfNeeded(row, t).row
      info == getUserCreditInfo(r)
      plan == DeductPlan(info, amount)
  IN  IF TotalAvailable(info) < amount
      THEN [ok |-> FALSE, error |-> "Insufficient credits", row |-> r,
            remainingCredits |-> 0, dailyCreditsRemaining |-> 0,
            creditSource |-> "none"]
      ELSE IF ~r.exists
      THEN [ok |-> FALSE, error |-> "Failed to deduct credits", row |-> r,
            remainingCredits |-> 0, dailyCreditsRemaining |-> 0,
            creditSource |-> "none"]
      ELSE [ok |-> TRUE, error |-> "none",
            row |-> DeductWrite(r, plan.newDailyCreditsUsed, plan.newBonusCredits),
            remainingCredits |-> plan.newBonusCredits,
            dailyCreditsRemaining |-> DAILY_CREDITS - plan.newDailyCreditsUsed,
            creditSource |-> plan.creditSource]

\* grantSignupBonus, run without interruption
grantSignupBonus(row) ==
  LET info == getUserCreditInfo(row)
  IN  IF info.signupBonusGiven THEN row ELSE GrantWrite(row, GrantCredits(info))

\* ensureUserExists, run without interruption at time t
ensureUserExists(row, t) == IF row.exists THEN row ELSE NewRow(t)

\* server.js 343-350: Math.max(0, DAILY_CREDITS - dailyCreditsUsed) + bonus
Available(row) ==
  (IF DAILY_CREDITS - row.daily_credits_used > 0
   THEN DAILY_CREDITS - row.daily_credits_used ELSE 0) + row.credits

\* ---------------------------------------------------- the anonymous pool
\* faulty variant: a new entry is given both allowances
AnonTouchedBoth(ac, ip) ==
  IF ac[ip] = NoEntry
  THEN [ac EXCEPT ![ip] = ANONYMOUS_FREE_CREDITS + DAILY_CREDITS] ELSE ac

\* faulty variant: an exhausted entry counts as absent (!anonymousCredits.get(ip))
AnonTouchedFalsy(ac, ip) ==
  IF ac[ip] = NoEntry \/ ac[ip] = 0
  THEN [ac EXCEPT ![ip] = ANONYMOUS_FREE_CREDITS] ELSE ac

\* faulty variant: a new entry is given the daily allowance
AnonTouchedDaily(ac, ip) ==
  IF ac[ip] = NoEntry THEN [ac EXCEPT ![ip] = DAILY_CREDITS] ELSE ac

\* getAnonymousCredits: the map after the call
AnonTouched(ac, ip) ==
  IF ac[ip] = NoEntry THEN [ac EXCEPT ![ip] = ANONYMOUS_FREE_CREDITS] ELSE ac

getAnonymousCredits(ac, ip) == AnonTouched(ac, ip)[ip]

\* faulty variant: the new balance is returned and not stored
deductAnonymousCreditsLost(ac, ip, amount) ==
  LET current == getAnonymousCredits(ac, ip)
  IN  [ok |-> current >= amount,
       remaining |-> IF current >= amount THEN current - amount ELSE current,
       map |-> AnonTouched(ac, ip)]

\* faulty variant: a balance that reaches 0 is given the allowance again
deductAnonymousCreditsRefill(ac, ip, amount) ==
  LET current == getAnonymousCredits(ac, ip)
  IN  IF current < amount
      THEN [ok |-> FALSE, remaining |-> current, map |-> AnonTouched(ac, ip)]
      ELSE [ok |-> TRUE, remaining |-> current - amount,
            map |-> [AnonTouched(ac, ip) EXCEPT ![ip] =
                       IF current - amount = 0 THEN ANONYMOUS_FREE_CREDITS
                       ELSE current - amount]]

\* faulty variant: one balance shared by all identifiers
deductAnonymousCreditsShared(ac, ip, amount) ==
  LET current == getAnonymousCredits(ac, ip)
  IN  IF current < amount
      THEN [ok |-> FALSE, remaining |-> current, map |-> AnonTouched(ac, ip)]
      ELSE [ok |-> TRUE, remaining |-> current - amount,
            map |-> [i \in DOMAIN ac |-> current - amount]]

\* deductAnonymousCredits: ok is false when it throws 'Insufficient credits'
deductAnonymousCredits(ac, ip, amount) ==
  LET current == getAnonymousCredits(ac, ip)
  IN  IF current < amount
      THEN [ok |-> FALSE, remaining |-> current, map |-> AnonTouched(ac, ip)]
      ELSE [ok |-> TRUE, remaining |-> current - amount,
            map |-> [AnonTouched(ac, ip) EXCEPT ![ip] = current - amount]]

creditCosts(mode) == IF mode = "followup" THEN 2 ELSE 1

\* ------------------------------------------------------- request handlers
Idle ==
  [pc |-> "idle", kind |-> "none", mode |-> "none", tok |-> "none",
   user |-> "none", ip |-> "none", isAnonymous |-> FALSE, ret |-> "none",
   userData |-> NoRow, total |-> 0, newUsed |-> 0,
   newBonus |-> 0, nextReset |-> NULL, remaining |-> 0, amount |-> 0,
   status |-> 0, credRem |-> NoValue, reserved |-> 0, path |-> "none",
   source |-> "none", gen |-> FALSE, saved |-> FALSE,
   promptOk |-> FALSE, resFault |-> FALSE]

\* faulty variant: the response is sent without return, the handler stays
\* where it was
FinishNoReturn(pr, code, rem) == [pr EXCEPT !.status = code, !.credRem = rem]

\* res.status(code).json(...): the handler returns; its locals are dead
Finish(pr, code, rem) ==
  [pr EXCEPT !.pc = "done", !.status = code, !.credRem = rem, !.ret = "none",
             !.userData = NoRow, !.total = 0, !.newUsed = 0,
             !.newBonus = 0, !.nextReset = NULL, !.remaining = 0]

NoLedger == [charged |-> 0, added |-> 0, granted |-> 0, resets |-> 0]

\* a store call of the reservation stage failed: the catch blocks at
\* server.js 826-842 answer 500
Failed(pr) == Finish([pr EXCEPT !.resFault = TRUE], 500, NoValue)

\* a store or provider call answers ok, or fails while failures remain
Answers == {ok \in BOOLEAN : ok \/ faults < MaxFaults}
Count(ok) == IF ok THEN faults ELSE faults + 1

\* server.js 852-855 and the await of the completion call
AfterReserve(pr, rem, cost, path) ==
  IF ~openai
  THEN Finish([pr EXCEPT !.reserved = cost, !.path = path], 500, NoValue)
  ELSE [pr EXCEPT !.pc = "generate", !.remaining = rem, !.reserved = cost,
                  !.path = path, !.total = 0, !.newUsed = 0,
                  !.newBonus = 0, !.nextReset = NULL, !.ret = "none"]

\* server.js 729-769: the anonymous branch, which contains no await
AnonBranch(pr, ac) ==
  LET cost    == creditCosts(pr.mode)
      current == getAnonymousCredits(ac, pr.ip)
      seen    == AnonTouched(ac, pr.ip)
      d       == deductAnonymousCredits(seen, pr.ip, cost)
      me      == [pr EXCEPT !.isAnonymous = TRUE]
  IN  IF current <= 0 \/ current < cost
      THEN [proc |-> Finish(me, 402, current), map |-> seen]
      ELSE IF ~d.ok
           THEN [proc |-> Finish(me, 402, current), map |-> d.map]
           ELSE [proc |-> AfterReserve(me, d.remaining, cost, "anon"),
                 map  |-> d.map]

\* faulty variant: no mode requires authentication
RequiresAuthNever(mode) == FALSE

\* faulty variant: every mode requires authentication
RequiresAuthAlways(mode) == TRUE

\* server.js 648 and 681: follow-up requires authentication
RequiresAuth(mode) == mode = "followup"

\* faulty variant: every mode is gated on the Pro flag
ProOnlyAll(mode) == TRUE

\* server.js 695: follow-up is gated on the Pro flag
ProOnly(mode) == mode = "followup"

\* faulty variant: the history append is attempted for every caller
SavesHistoryAlways(pr) == TRUE

\* server.js 981: the history append is attempted for signed-in callers
SavesHistory(pr) == ~pr.isAnonymous

\* the original_prompt field of a request body: absent, empty, blanks only,
\* or a text
Prompts == {"missing", "", "  ", "text"}

\* String.prototype.trim on the values of Prompts
trim(s) == IF s = "  " THEN "" ELSE s

\* JavaScript's !s on the values of Prompts
Falsy(s) == s \in {"missing", ""}

\* faulty variant: the validation does not trim
PromptMissingUntrimmed(s) == Falsy(s)

\* server.js 637: !original_prompt || !original_prompt.trim()
PromptMissing(s) == Falsy(s) \/ Falsy(trim(s))

\* a request that has not arrived yet; the requests are interchangeable, so
\* the first one to arrive is FirstProc
FirstProc == CHOOSE q \in Procs : TRUE
Free(p) ==
  /\ proc[p].pc = "idle"
  /\ p # FirstProc => proc[FirstProc].pc # "idle"

\* server.js 630-691 up to the first await; toks and modes are the
\* credentials and the endpoints the clients of the workload use
PromptStart(p, toks, modes) ==
  /\ Free(p)
  /\ \E mode \in modes, tok \in toks,
        u \in Users, ip \in IPs, original_prompt \in Prompts :
       LET pr == [Idle EXCEPT !.kind = "prompt", !.mode = mode, !.tok = tok,
                              !.user = u, !.ip = ip,
                              !.promptOk = original_prompt = "text"]
           a  == AnonBranch(pr, anonymousCredits)
       IN  /\ tok # "valid" => u = CHOOSE x \in Users : TRUE
           /\ tok = "valid" => ip = CHOOSE x \in IPs : TRUE
           /\ IF PromptMissing(original_prompt)
              THEN /\ proc' = [proc EXCEPT ![p] = Finish(pr, 400, NoValue)]
                   /\ UNCHANGED anonymousCredits
              ELSE IF RequiresAuth(mode) /\ tok = "none"
              THEN /\ proc' = [proc EXCEPT ![p] = Finish(pr, 401, NoValue)]
                   /\ UNCHANGED anonymousCredits
              ELSE IF tok # "none"
              THEN /\ proc' = [proc EXCEPT ![p] = [pr EXCEPT !.pc = "verify"]]
                   /\ UNCHANGED anonymousCredits
              ELSE /\ proc' = [proc EXCEPT ![p] = a.proc]
                   /\ anonymousCredits' = a.map
  /\ UNCHANGED <<db, now, openai, ledger, faults, db0, anon0, hist>>

\* server.js 660-691: verifyUserFromToken answered
PromptVerify(p) ==
  LET pr == proc[p]
      a  == AnonBranch(pr, anonymousCredits)
  IN  /\ pr.kind = "prompt" /\ pr.pc = "verify"
      /\ IF pr.tok = "valid"
         THEN /\ proc' = [proc EXCEPT ![p] =
                   [pr EXCEPT !.pc = IF ProOnly(pr.mode)
                                     THEN "gatePro" ELSE "resPro"]]
              /\ UNCHANGED anonymousCredits
         ELSE IF RequiresAuth(pr.mode)
         THEN /\ proc' = [proc EXCEPT ![p] = Finish(pr, 401, NoValue)]
              /\ UNCHANGED anonymousCredits
         ELSE /\ proc' = [proc EXCEPT ![p] = a.proc]
              /\ anonymousCredits' = a.map
      /\ UNCHANGED <<db, now, openai, ledger, faults, db0, anon0, hist>>

\* server.js 695-710: the Pro gate of follow-up
PromptGatePro(p) ==
  LET pr == proc[p]
  IN  /\ pr.kind = "prompt" /\ pr.pc = "gatePro"
      /\ \E ok \in Answers :
           /\ faults' = Count(ok)
           /\ proc' = [proc EXCEPT ![p] =
                IF ~ok THEN Finish(pr, 500, NoValue)
                ELSE IF ~getUserProStatus(db[pr.user])
                     THEN Finish(pr, 403, NoValue)
                     ELSE [pr EXCEPT !.pc = "resPro"]]
      /\ UNCHANGED <<db, anonymousCredits, now, openai, ledger, db0, anon0, hist>>

\* faulty variant: every signed-in caller is charged
ReservationPathCharged(isPro, mode) == "free"

\* faulty variant: every signed-in caller bypasses the reservation
ReservationPathOpen(isPro, mode) == "pro"

\* server.js 782-848: the branch the reservation stage takes
ReservationPath(isPro, mode) ==
  IF isPro THEN "pro"
  ELSE IF mode \in {"improve", "refine"} THEN "free" ELSE "unchecked"

\* faulty variant: a caller whose Pro read failed counts as Pro
isProUnreadTrue == TRUE

\* server.js 773: let isPro = false, the value the catch at 776-779 leaves
isProUnread == FALSE

\* server.js 771-790 and 843-848: the Pro read of the reservation stage
PromptResPro(p) ==
  LET pr == proc[p]
  IN  /\ pr.kind = "prompt" /\ pr.pc = "resPro"
      /\ \E ok \in Answers :
           LET isPro == IF ok THEN getUserProStatus(db[pr.user])
                        ELSE isProUnread
           IN  /\ faults' = Count(ok)
               /\ proc' = [proc EXCEPT ![p] =
                    LET me   == [pr EXCEPT !.resFault = ~ok]
                        path == ReservationPath(isPro, pr.mode)
                    IN  IF path = "free"
                        THEN [me EXCEPT !.pc = "resetRead", !.ret = "hInfo"]
                        ELSE AfterReserve(me, UNLIMITED, 0, path)]
      /\ UNCHANGED <<db, anonymousCredits, now, openai, ledger, db0, anon0, hist>>

\* userHelpers.js 286-292: resetDailyCreditsIfNeeded read the row;
\* a failure is caught at server.js 839-842 or 826-838
ResetRead(p) ==
  LET pr   == proc[p]
      info == getUserCreditInfo(db[pr.user])
  IN  /\ pr.kind = "prompt" /\ pr.pc = "resetRead"
      /\ \E ok \in Answers :
           /\ faults' = Count(ok)
           /\ proc' = [proc EXCEPT ![p] =
                IF ~ok THEN Failed(pr)
                ELSE IF ResetNeeded(info, now)
                     THEN [pr EXCEPT !.pc = "resetWrite",
                                     !.nextReset = NextReset(now)]
                     ELSE [pr EXCEPT !.pc = pr.ret, !.ret = "none"]]
      /\ UNCHANGED <<db, anonymousCredits, now, openai, ledger, db0, anon0, hist>>

\* userHelpers.js 294-307: resetDailyCreditsIfNeeded wrote the row
ResetWriteStep(p) ==
  LET pr == proc[p]
      u  == pr.user
  IN  /\ pr.kind = "prompt" /\ pr.pc = "resetWrite"
      /\ \E ok \in Answers :
           /\ faults' = Count(ok)
           /\ IF ~ok
              THEN /\ proc' = [proc EXCEPT ![p] = Failed(pr)]
                   /\ UNCHANGED <<db, ledger>>
              ELSE /\ db' = [db EXCEPT ![u] = ResetWrite(@, pr.nextReset)]
                   /\ ledger' = [ledger EXCEPT ![u].resets =
                                   IF db[u].exists THEN @ + 1 ELSE @]
                   /\ proc' = [proc EXCEPT ![p] =
                        [pr EXCEPT !.pc = pr.ret, !.ret = "none",
                                   !.nextReset = NULL]]
      /\ UNCHANGED <<anonymousCredits, now, openai, db0, anon0, hist>>

\* server.js 798-823: the handler's own availability check
PromptInfo(p) ==
  LET pr    == proc[p]
      info  == getUserCreditInfo(db[pr.user])
      total == TotalAvailable(info)
  IN  /\ pr.kind = "prompt" /\ pr.pc = "hInfo"
      /\ \E ok \in Answers :
           /\ faults' = Count(ok)
           /\ proc' = [proc EXCEPT ![p] =
                IF ~ok THEN Failed(pr)
                ELSE IF total < creditCosts(pr.mode)
                     THEN Finish(pr, 402, total)
                     ELSE [pr EXCEPT !.pc = "resetRead", !.ret = "dInfo",
                                     !.total = total]]
      /\ UNCHANGED <<db, anonymousCredits, now, openai, ledger, db0, anon0, hist>>

\* userHelpers.js 350-379: deductFreeUserCredits read the row and planned
DeductInfo(p) ==
  LET pr   == proc[p]
      info == getUserCreditInfo(db[pr.user])
      plan == DeductPlan(info, creditCosts(pr.mode))
  IN  /\ pr.kind = "prompt" /\ pr.pc = "dInfo"
      /\ \E ok \in Answers :
           /\ faults' = Count(ok)
           /\ proc' = [proc EXCEPT ![p] =
                IF ~ok THEN Failed(pr)
                ELSE IF TotalAvailable(info) < creditCosts(pr.mode)
                     THEN Finish(pr, 402, pr.total)
                     ELSE [pr EXCEPT !.pc = "dWrite",
                                     !.newUsed = plan.newDailyCreditsUsed,
                                     !.newBonus = plan.newBonusCredits,
                                     !.source = plan.creditSource]]
      /\ UNCHANGED <<db, anonymousCredits, now, openai, ledger, db0, anon0, hist>>

\* userHelpers.js 381-403 and server.js 824-838: the update of both
\* counters; .single() reports an error when no row was updated
DeductWriteStep(p) ==
  LET pr == proc[p]
      u  == pr.user
  IN  /\ pr.kind = "prompt" /\ pr.pc = "dWrite"
      /\ \E ok \in Answers :
           /\ faults' = Count(ok)
           /\ IF ~ok \/ ~db[u].exists
              THEN /\ proc' = [proc EXCEPT ![p] = Failed(pr)]
                   /\ UNCHANGED <<db, ledger>>
              ELSE /\ db' = [db EXCEPT ![u] =
                               DeductWrite(@, pr.newUsed, pr.newBonus)]
                   /\ ledger' = [ledger EXCEPT ![u].charged =
                                   @ + creditCosts(pr.mode)]
                   /\ proc' = [proc EXCEPT ![p] =
                        AfterReserve(pr, pr.newBonus, creditCosts(pr.mode), "free")]
      /\ UNCHANGED <<anonymousCredits, now, openai, db0, anon0, hist>>

\* server.js 940-993: the completion call answered
PromptGenerate(p) ==
  LET pr == [proc[p] EXCEPT !.gen = TRUE]
  IN  /\ pr.kind = "prompt" /\ pr.pc = "generate"
      /\ \E ok \in Answers :
           /\ faults' = Count(ok)
           /\ proc' = [proc EXCEPT ![p] =
                IF ~ok THEN Finish(pr, 500, NoValue)
                ELSE IF SavesHistory(pr)
                     THEN [pr EXCEPT !.pc = "save"]
                     ELSE Finish(pr, 200, pr.remaining)]
      /\ UNCHANGED <<db, anonymousCredits, now, openai, ledger, db0, anon0, hist>>

\* server.js 980-1000: savePrompt answered; its failure is swallowed
PromptSave(p) ==
  LET pr == [proc[p] EXCEPT !.saved = TRUE]
  IN  /\ pr.kind = "prompt" /\ pr.pc = "save"
      /\ \E ok \in Answers :
           /\ faults' = Count(ok)
           /\ proc' = [proc EXCEPT ![p] = Finish(pr, 200, pr.remaining)]
      /\ UNCHANGED <<db, anonymousCredits, now, openai, ledger, db0, anon0, hist>>

\* faulty variant: GET /api/me ignores the expiry of the window
MeCreditsStored(userData, t) ==
  IF userData.is_pro THEN PRO_CREDITS ELSE Available(userData)

\* server.js 319-351: credits_remaining as GET /api/me computes it
MeCredits(userData, t) ==
  IF userData.is_pro THEN PRO_CREDITS
  ELSE IF userData.daily_reset_at = NULL \/ t >= userData.daily_reset_at
       THEN DAILY_CREDITS + userData.credits
       ELSE Available(userData)

\* server.js 240-254: GET /api/me up to the first await
MeStart(p, toks) ==
  /\ Free(p)
  /\ \E tok \in toks, u \in Users :
       LET pr == [Idle EXCEPT !.kind = "me", !.tok = tok, !.user = u]
       IN  /\ tok # "valid" => u = CHOOSE x \in Users : TRUE
           /\ proc' = [proc EXCEPT ![p] =
                IF tok = "none" THEN Finish(pr, 401, NoValue)
                ELSE [pr EXCEPT !.pc = "meVerify"]]
  /\ UNCHANGED <<db, anonymousCredits, now, openai, ledger, faults, db0, anon0, hist>>

\* server.js 254-277 and 365-369: verifyUserFromToken answered
MeVerify(p) ==
  LET pr == proc[p]
  IN  /\ pr.kind = "me" /\ pr.pc = "meVerify"
      /\ proc' = [proc EXCEPT ![p] =
           IF pr.tok = "valid" THEN [pr EXCEPT !.pc = "meRead"]
           ELSE Finish(pr, 401, NoValue)]
      /\ UNCHANGED <<db, anonymousCredits, now, openai, ledger, faults, db0, anon0, hist>>

\* server.js 273-298 and 319-364: the select of the row answered
MeRead(p) ==
  LET pr  == proc[p]
      row == db[pr.user]
  IN  /\ pr.kind = "me" /\ pr.pc = "meRead"
      /\ \E ok \in Answers :
           /\ faults' = Count(ok)
           /\ proc' = [proc EXCEPT ![p] =
                IF ~ok THEN Finish(pr, 500, NoValue)
                ELSE IF ~row.exists THEN Finish(pr, 200, 0)
                ELSE IF ~row.signup_bonus_given
                     THEN [pr EXCEPT !.pc = "grantRead", !.userData = row]
                     ELSE Finish(pr, 200, MeCredits(row, now))]
      /\ UNCHANGED <<db, anonymousCredits, now, openai, ledger, db0, anon0, hist>>

\* userHelpers.js 422-431: grantSignupBonus read the row;
\* a failure is caught at server.js 313-316
GrantRead(p) ==
  LET pr   == proc[p]
      info == getUserCreditInfo(db[pr.user])
  IN  /\ pr.kind = "me" /\ pr.pc = "grantRead"
      /\ \E ok \in Answers :
           /\ faults' = Count(ok)
           /\ proc' = [proc EXCEPT ![p] =
                IF ~ok THEN Finish(pr, 200, MeCredits(pr.userData, now))
                ELSE IF info.signupBonusGiven
                     THEN [pr EXCEPT !.pc = "meRefresh"]
                     ELSE [pr EXCEPT !.pc = "grantWrite",
                                     !.newBonus = GrantCredits(info)]]
      /\ UNCHANGED <<db, anonymousCredits, now, openai, ledger, db0, anon0, hist>>

\* userHelpers.js 433-445: grantSignupBonus wrote the row
GrantWriteStep(p) ==
  LET pr == proc[p]
      u  == pr.user
  IN  /\ pr.kind = "me" /\ pr.pc = "grantWrite"
      /\ \E ok \in Answers :
           /\ faults' = Count(ok)
           /\ IF ~ok
              THEN /\ proc' = [proc EXCEPT ![p] =
                        Finish(pr, 200, MeCredits(pr.userData, now))]
                   /\ UNCHANGED <<db, ledger>>
              ELSE /\ db' = [db EXCEPT ![u] = GrantWrite(@, pr.newBonus)]
                   /\ ledger' = [ledger EXCEPT ![u].granted =
                                   IF db[u].exists THEN @ + 1 ELSE @]
                   /\ proc' = [proc EXCEPT ![p] =
                        [pr EXCEPT !.pc = "meRefresh", !.newBonus = 0]]
      /\ UNCHANGED <<anonymousCredits, now, openai, db0, anon0, hist>>

\* server.js 299-312 and 319-364: the refreshing select answered;
\* without data the first answer is reported
MeRefresh(p) ==
  LET pr  == proc[p]
      row == db[pr.user]
  IN  /\ pr.kind = "me" /\ pr.pc = "meRefresh"
      /\ \E ok \in Answers :
           /\ faults' = Count(ok)
           /\ proc' = [proc EXCEPT ![p] =
                IF ok /\ row.exists
                THEN Finish(pr, 200, MeCredits(
                       [pr.userData EXCEPT !.is_pro = row.is_pro,
                          !.credits = row.credits,
                          !.daily_credits_used = row.daily_credits_used,
                          !.daily_reset_at = row.daily_reset_at], now))
                ELSE Finish(pr, 200, MeCredits(pr.userData, now))]
      /\ UNCHANGED <<db, anonymousCredits, now, openai, ledger, db0, anon0, hist>>

\* server.js 378-421: POST /api/auth/signup up to the select of
\* ensureUserExists
SignupStart(p) ==
  /\ Free(p)
  /\ \E u \in Users :
       proc' = [proc EXCEPT ![p] =
                  [Idle EXCEPT !.kind = "signup", !.user = u, !.pc = "ensureRead"]]
  /\ UNCHANGED <<db, anonymousCredits, now, openai, ledger, faults, db0, anon0, hist>>

\* userHelpers.js 44-58: ensureUserExists selected the row; without data
\* (no row, or an error) it goes on to insert
EnsureRead(p) ==
  LET pr == proc[p]
  IN  /\ pr.kind = "signup" /\ pr.pc = "ensureRead"
      /\ \E ok \in Answers :
           /\ faults' = Count(ok)
           /\ proc' = [proc EXCEPT ![p] =
                IF ok /\ db[pr.user].exists THEN Finish(pr, 200, NoValue)
                ELSE [pr EXCEPT !.pc = "ensureInsert", !.nextReset = now]]
      /\ UNCHANGED <<db, anonymousCredits, now, openai, ledger, db0, anon0, hist>>

\* userHelpers.js 60-78 and server.js 417-432: the insert answered;
\* duplicate key (23505) and every other failure end in the same 200
EnsureInsert(p) ==
  LET pr == proc[p]
      u  == pr.user
  IN  /\ pr.kind = "signup" /\ pr.pc = "ensureInsert"
      /\ \E ok \in Answers :
           /\ faults' = Count(ok)
           /\ db' = IF ok /\ ~db[u].exists
                    THEN [db EXCEPT ![u] = NewRow(pr.nextReset)] ELSE db
           /\ proc' = [proc EXCEPT ![p] = Finish(pr, 200, NoValue)]
      /\ UNCHANGED <<anonymousCredits, now, openai, ledger, db0, anon0, hist>>

\* server.js 525-556: POST /api/credits/add up to the select by email
AddStart(p, amounts) ==
  /\ Free(p)
  /\ \E u \in Users, amount \in amounts, valid \in BOOLEAN :
       LET pr == [Idle EXCEPT !.kind = "add", !.user = u, !.amount = amount]
       IN  /\ ~valid => (u = CHOOSE x \in Users : TRUE) /\ amount = 1
           /\ proc' = [proc EXCEPT ![p] =
                IF ~valid THEN Finish(pr, 401, NoValue)
                ELSE [pr EXCEPT !.pc = "addRead"]]
  /\ UNCHANGED <<db, anonymousCredits, now, openai, ledger, faults, db0, anon0, hist>>

\* server.js 552-566: the select by email answered
AddRead(p) ==
  LET pr == proc[p]
  IN  /\ pr.kind = "add" /\ pr.pc = "addRead"
      /\ \E ok \in Answers :
           /\ faults' = Count(ok)
           /\ proc' = [proc EXCEPT ![p] =
                IF ~ok \/ ~db[pr.user].exists THEN Finish(pr, 401, NoValue)
                ELSE [pr EXCEPT !.pc = "addWrite",
                                !.newBonus = db[pr.user].credits + pr.amount]]
      /\ UNCHANGED <<db, anonymousCredits, now, openai, ledger, db0, anon0, hist>>

\* server.js 568-587: the update answered
AddWrite(p) ==
  LET pr == proc[p]
      u  == pr.user
  IN  /\ pr.kind = "add" /\ pr.pc = "addWrite"
      /\ \E ok \in Answers :
           /\ faults' = Count(ok)
           /\ IF ~ok \/ ~db[u].exists
              THEN /\ proc' = [proc EXCEPT ![p] = Finish(pr, 500, NoValue)]
                   /\ UNCHANGED <<db, ledger>>
              ELSE /\ db' = [db EXCEPT ![u].credits = pr.newBonus]
                   /\ ledger' = [ledger EXCEPT ![u].added = @ + pr.amount]
                   /\ proc' = [proc EXCEPT ![p] = Finish(pr, 200, pr.newBonus)]
      /\ UNCHANGED <<anonymousCredits, now, openai, db0, anon0, hist>>

\* the clock advances
Tick ==
  /\ now < MaxTime
  /\ now' = now + 1
  /\ UNCHANGED <<db, anonymousCredits, openai, proc, ledger, faults, db0, anon0, hist>>

\* --------------------------------------------------------- specification
\* the rows the users table can hold when the server starts
\* (a Pro row starts with an untouched daily window)
InitRows ==
  {NoRow} \cup
  [exists : {TRUE}, is_pro : {FALSE}, credits : 0..MaxInitCredits,
   daily_credits_used : 0..DAILY_CREDITS,
   daily_reset_at : {NULL} \cup 1..DayLength, signup_bonus_given : BOOLEAN]
  \cup
  [exists : {TRUE}, is_pro : {TRUE}, credits : 0..MaxInitCredits,
   daily_credits_used : {0},
   daily_reset_at : {DayLength}, signup_bonus_given : BOOLEAN]

Init ==
  /\ db \in [Users -> InitRows]
  /\ db0 = db
  /\ anonymousCredits = [ip \in IPs |-> NoEntry]
  /\ anon0 = anonymousCredits
  /\ now = 0
  /\ openai \in BOOLEAN
  /\ proc = [p \in Procs |-> Idle]
  /\ ledger = [u \in Users |-> NoLedger]
  /\ faults = 0
  /\ hist = << >>

\* server.js 852: the server was started with a provider key; the server
\* without one answers 500 after every reservation, which SpecOne and
\* SpecAnon run
InitConfigured == Init /\ openai

AllToks   == {"none", "invalid", "valid"}
AnonToks  == {"none", "invalid"}
ValidToks == {"valid"}

\* the steps of the prompt handler for request p
Prompt(p, toks, modes) ==
  \/ PromptStart(p, toks, modes)
  \/ PromptVerify(p)
  \/ PromptGatePro(p)
  \/ PromptResPro(p)
  \/ ResetRead(p)
  \/ ResetWriteStep(p)
  \/ PromptInfo(p)
  \/ DeductInfo(p)
  \/ DeductWriteStep(p)
  \/ PromptGenerate(p)
  \/ PromptSave(p)

\* the steps of the account endpoints for request p
Account(p, toks, amounts) ==
  \/ MeStart(p, toks)
  \/ MeVerify(p)
  \/ MeRead(p)
  \/ GrantRead(p)
  \/ GrantWriteStep(p)
  \/ MeRefresh(p)
  \/ SignupStart(p)
  \/ EnsureRead(p)
  \/ EnsureInsert(p)
  \/ AddStart(p, amounts)
  \/ AddRead(p)
  \/ AddWrite(p)

\* Spec: concurrent requests of signed-in clients and of the administrator.
\* /api/prompts/refine differs from /api/prompts/improve in the system prompt
\* alone (server.js 918-927), so the concurrent clients use improve and
\* followup; SpecOne and SpecAnon run all three endpoints.
Next ==
  \/ \E p \in Procs : Prompt(p, ValidToks, {"improve", "followup"})
  \/ \E p \in Procs : Account(p, ValidToks, 1..MaxTopUp)
  \/ Tick

Spec == InitConfigured /\ [][Next]_vars

\* SpecOne: one request of any kind, with any credential
NextOne ==
  \/ Prompt(FirstProc, AllToks, Modes)
  \/ Account(FirstProc, AllToks, 1..MaxTopUp)
  \/ Tick

SpecOne == Init /\ [][NextOne]_vars

\* the continuation of the prompt handler after any of its awaits
Continue(p) ==
  \/ PromptVerify(p)
  \/ PromptGatePro(p)
  \/ PromptResPro(p)
  \/ ResetRead(p)
  \/ ResetWriteStep(p)
  \/ PromptInfo(p)
  \/ DeductInfo(p)
  \/ DeductWriteStep(p)
  \/ PromptGenerate(p)
  \/ PromptSave(p)

\* SpecOneLive: SpecOne where every awaited call of the prompt handler
\* returns or fails, so that the handler's continuation runs
SpecOneLive == SpecOne /\ \A p \in Procs : WF_vars(Continue(p))

\* SpecAccount: the account endpoints alone, concurrently, where a top-up
\* may be larger than the signup bonus
TopUps == {1, SIGNUP_BONUS + 1}

NextAccount ==
  \/ \E p \in Procs : Account(p, ValidToks, TopUps)
  \/ Tick

SpecAccount == InitConfigured /\ [][NextAccount]_vars

\* SpecAnon: concurrent requests of clients that are not signed in, sent to
\* a server that has been serving such clients for a while
InitAnon ==
  /\ db = [u \in Users |-> NoRow]
  /\ db0 = db
  /\ anonymousCredits \in [IPs -> {NoEntry} \cup 0..(ANONYMOUS_FREE_CREDITS - 1)]
  /\ anon0 = anonymousCredits
  /\ now = 0
  /\ openai \in BOOLEAN
  /\ proc = [p \in Procs |-> Idle]
  /\ ledger = [u \in Users |-> NoLedger]
  /\ faults = 0
  /\ hist = << >>

NextAnon ==
  \/ \E p \in Procs : PromptStart(p, AnonToks, Modes)
  \/ \E p \in Procs : PromptVerify(p)
  \/ \E p \in Procs : PromptGenerate(p)

SpecAnon == InitAnon /\ [][NextAnon]_vars

\* ------------------------------------------------- the sequential driver
\* SpecSeq: the helpers called one after the other, each call running to
\* its end before the next one starts
Call(op, key, amount, pre, post, ok, ret, source) ==
  [op |-> op, key |-> key, amount |-> amount, t |-> now, pre |-> pre,
   post |-> post, ok |-> ok, ret |-> ret, source |-> source]

CanCall == Len(hist) < MaxCalls

CallReset ==
  /\ CanCall
  /\ \E u \in Users :
       LET r == resetDailyCreditsIfNeeded(db[u], now)
       IN  /\ db' = [db EXCEPT ![u] = r.row]
           /\ hist' = Append(hist, Call("resetDailyCreditsIfNeeded", u, 0,
                        db[u], r.row, TRUE, IF r.reset THEN 1 ELSE 0, "none"))
  /\ UNCHANGED <<anonymousCredits, now, openai, proc, ledger, faults, db0, anon0>>

CallDeduct ==
  /\ CanCall
  /\ \E u \in Users, amount \in 1..MaxAmount :
       LET r == deductFreeUserCredits(db[u], amount, now)
       IN  /\ db' = [db EXCEPT ![u] = r.row]
           /\ hist' = Append(hist, Call("deductFreeUserCredits", u, amount,
                        db[u], r.row, r.ok, r.remainingCredits, r.creditSource))
  /\ UNCHANGED <<anonymousCredits, now, openai, proc, ledger, faults, db0, anon0>>

CallGrant ==
  /\ CanCall
  /\ \E u \in Users :
       LET r == grantSignupBonus(db[u])
       IN  /\ db' = [db EXCEPT ![u] = r]
           /\ hist' = Append(hist, Call("grantSignupBonus", u, 0,
                        db[u], r, TRUE, 0, "none"))
  /\ UNCHANGED <<anonymousCredits, now, openai, proc, ledger, faults, db0, anon0>>

CallEnsure ==
  /\ CanCall
  /\ \E u \in Users :
       LET r == ensureUserExists(db[u], now)
       IN  /\ db' = [db EXCEPT ![u] = r]
           /\ hist' = Append(hist, Call("ensureUserExists", u, 0,
                        db[u], r, TRUE, 0, "none"))
  /\ UNCHANGED <<anonymousCredits, now, openai, proc, ledger, faults, db0, anon0>>

\* an anonymous entry as a row of the call record
Entry(v) == [NoRow EXCEPT !.credits = v]

CallPeek ==
  /\ CanCall
  /\ \E ip \in IPs :
       /\ anonymousCredits' = AnonTouched(anonymousCredits, ip)
       /\ hist' = Append(hist, Call("getAnonymousCredits", ip, 0,
                    Entry(anonymousCredits[ip]), Entry(anonymousCredits'[ip]),
                    TRUE, getAnonymousCredits(anonymousCredits, ip), "none"))
  /\ UNCHANGED <<db, now, openai, proc, ledger, faults, db0, anon0>>

CallAnonDeduct ==
  /\ CanCall
  /\ \E ip \in IPs, amount \in 1..MaxAmount :
       LET d == deductAnonymousCredits(anonymousCredits, ip, amount)
       IN  /\ anonymousCredits' = d.map
           /\ hist' = Append(hist, Call("deductAnonymousCredits", ip, amount,
                        Entry(anonymousCredits[ip]), Entry(d.map[ip]),
                        d.ok, d.remaining, "none"))
  /\ UNCHANGED <<db, now, openai, proc, ledger, faults, db0, anon0>>

NextSeq ==
  \/ CallReset
  \/ CallDeduct
  \/ CallGrant
  \/ CallEnsure
  \/ CallPeek
  \/ CallAnonDeduct
  \/ Tick

SpecSeq == InitConfigured /\ [][NextSeq]_vars

\* ------------------------------------------------------------ the claims
\* requests that reserved from the ledger of account u
Reserved(u) ==
  {p \in Procs : proc[p].user = u /\ proc[p].path = "free" /\ proc[p].reserved > 0}

\* the balance a row stores: what the handler and deductFreeUserCredits add up
Stored(row) == (DAILY_CREDITS - row.daily_credits_used) + row.credits

\* nothing but deductions has written the balance of u since the start
OneWindow(u) ==
  /\ db0[u].exists /\ ~db0[u].is_pro
  /\ ledger[u].added = 0 /\ ledger[u].granted = 0 /\ ledger[u].resets = 0

\* C1: of two concurrent improve/refine requests against a non-Pro account
\* whose available balance is exactly 1, at most one reserves successfully.
C1_AtMostOneReservation ==
  \A u \in Users :
    (OneWindow(u) /\ Available(db0[u]) = 1) => Cardinality(Reserved(u)) <= 1

\* C2: two concurrent anonymous requests of cost 1 from one identifier whose
\* pool holds exactly 1 credit end in exactly one reservation and one 402
\* denial, and the pool ends at 0.
AnonRequests(ip) == {p \in Procs : proc[p].isAnonymous /\ proc[p].ip = ip}

C2_AnonExactlyOne ==
  \A ip \in IPs :
    (anon0[ip] = 1 /\ Cardinality(AnonRequests(ip)) = 2) =>
      /\ Cardinality({p \in AnonRequests(ip) :
                        proc[p].reserved = 1 /\ proc[p].status # 402}) = 1
      /\ Cardinality({p \in AnonRequests(ip) :
                        proc[p].reserved = 0 /\ proc[p].status = 402}) = 1
      /\ anonymousCredits[ip] = 0

C2_Witness ==
  \E ip \in IPs :
    /\ anon0[ip] = 1
    /\ Cardinality(AnonRequests(ip)) = 2
    /\ \E p \in AnonRequests(ip) : proc[p].status = 402 /\ proc[p].credRem = 0
    /\ \E p \in AnonRequests(ip) : proc[p].status = 200 /\ proc[p].credRem = 0

\* C3: within one daily window and without top-up or grant, the stored
\* balance of an account is its initial balance less the sum of the costs of
\* the successful reservations.
C3_ExactlyOnceDecrement ==
  \A u \in Users :
    OneWindow(u) => Stored(db[u]) = Stored(db0[u]) - ledger[u].charged

\* C4: however concurrent grantSignupBonus calls interleave, the signup
\* bonus of 10 is added to the credits of an account at most once: without
\* deductions and top-ups the credits are the initial credits, plus 10 once
\* any grant has been written.
C4_BonusAtMostOnce ==
  \A u \in Users :
    /\ db[u].credits <= db0[u].credits + 10 + ledger[u].added
    /\ (ledger[u].charged = 0 /\ ledger[u].added = 0) =>
         db[u].credits = db0[u].credits +
                         (IF ledger[u].granted > 0 THEN 10 ELSE 0)

C4_Witness ==
  \E u \in Users :
    /\ ledger[u].granted = 2 /\ ledger[u].charged = 0 /\ ledger[u].added = 0
    /\ db[u].credits = db0[u].credits + 10
    /\ \A p \in Procs : proc[p].kind = "me" /\ proc[p].status = 200

\* pairs of consecutive calls of the sequential driver
Pairs == {i \in 1..Len(hist) : i + 1 <= Len(hist)}

\* C5: two grantSignupBonus calls in sequence for an existing account change
\* credits by +10 in total: the first adds 10 and sets signup_bonus_given,
\* the second changes nothing, and the flag stays true (an account that
\* already holds the bonus is changed by neither).
C5_GrantIdempotent ==
  \A i \in Pairs :
    LET a == hist[i]
        b == hist[i + 1]
    IN  (/\ a.op = "grantSignupBonus" /\ b.op = "grantSignupBonus"
         /\ a.key = b.key /\ a.pre.exists) =>
          /\ b.post = b.pre /\ b.pre = a.post
          /\ b.post.signup_bonus_given
          /\ ~a.pre.signup_bonus_given =>
               /\ a.post.credits = a.pre.credits + 10
               /\ b.post.credits = a.pre.credits + 10
          /\ a.pre.signup_bonus_given => b.post = a.pre
          /\ a.post = [a.pre EXCEPT !.credits = a.post.credits,
                                    !.signup_bonus_given = TRUE]

C5_Witness ==
  \E i \in Pairs :
    /\ hist[i].op = "grantSignupBonus" /\ hist[i + 1].op = "grantSignupBonus"
    /\ hist[i].key = hist[i + 1].key
    /\ hist[i].pre.exists /\ ~hist[i].pre.signup_bonus_given
    /\ hist[i + 1].post.credits = hist[i].pre.credits + 10

\* what a call record says the pool held before the call
Remaining(c) == IF c.pre.credits = NoEntry THEN 5 ELSE c.pre.credits

\* C6: the first observation of an anonymous identifier yields 5, and a
\* reservation of cost c <= remaining leaves remaining - c and returns it.
C6_AnonPool ==
  \A i \in 1..Len(hist) :
    LET c == hist[i]
    IN  /\ (c.op = "getAnonymousCredits" /\ c.pre.credits = NoEntry) =>
             c.ret = 5 /\ c.post.credits = 5
        /\ (c.op = "deductAnonymousCredits" /\ c.amount <= Remaining(c)) =>
             /\ c.ok
             /\ c.post.credits = Remaining(c) - c.amount
             /\ c.ret = Remaining(c) - c.amount

C6_Witness ==
  /\ Len(hist) = 2
  /\ hist[1].op = "getAnonymousCredits" /\ hist[1].pre.credits = NoEntry
  /\ hist[2].op = "deductAnonymousCredits" /\ hist[2].key = hist[1].key
  /\ hist[2].amount = 2 /\ hist[2].ret = 3

\* the step in which request p runs the anonymous branch
AnonStep(p) == ~proc[p].isAnonymous /\ proc'[p].isAnonymous

\* C7: an anonymous reservation whose cost exceeds the remaining balance of
\* the identifier is denied with 402 carrying the current balance, and the
\* balance is left unchanged.
C7_AnonInsufficient ==
  [][\A p \in Procs :
       LET ip == proc'[p].ip
       IN  (/\ AnonStep(p)
            /\ anonymousCredits[ip] # NoEntry
            /\ anonymousCredits[ip] < creditCosts(proc'[p].mode)) =>
             /\ proc'[p].status = 402
             /\ proc'[p].credRem = anonymousCredits[ip]
             /\ proc'[p].reserved = 0
             /\ anonymousCredits' = anonymousCredits]_vars

C7_Witness ==
  \E p \in Procs :
    /\ proc[p].isAnonymous /\ proc[p].status = 402 /\ proc[p].credRem = 0
    /\ anon0[proc[p].ip] = 0 /\ anonymousCredits[proc[p].ip] = 0

\* daily_credits_used as a deductFreeUserCredits call finds it after its
\* own window reset
UsedAtDraw(c) ==
  IF c.pre.daily_reset_at = NULL \/ c.t >= c.pre.daily_reset_at
  THEN 0 ELSE c.pre.daily_credits_used

\* C8: a successful deductFreeUserCredits draws from the daily allowance
\* first and takes only the shortfall from bonus credits: with daily
\* available >= amount, daily_credits_used rises by amount, credits is
\* unchanged and the source is "daily"; otherwise daily_credits_used becomes
\* 3, credits falls by amount minus daily available, and the source is "mixed".
C8_DrawOrder ==
  \A i \in 1..Len(hist) :
    LET c     == hist[i]
        avail == 3 - UsedAtDraw(c)
    IN  (c.op = "deductFreeUserCredits" /\ c.ok) =>
          IF avail >= c.amount
          THEN /\ c.post.daily_credits_used = UsedAtDraw(c) + c.amount
               /\ c.post.credits = c.pre.credits
               /\ c.source = "daily"
          ELSE /\ c.post.daily_credits_used = 3
               /\ c.post.credits = c.pre.credits - (c.amount - avail)
               /\ c.source = "mixed"

C8_Witness ==
  \E i \in 1..Len(hist) :
    /\ hist[i].op = "deductFreeUserCredits" /\ hist[i].ok
    /\ hist[i].amount = 2 /\ hist[i].source = "mixed"
    /\ hist[i].pre.daily_credits_used = 2 /\ hist[i].post.daily_credits_used = 3
    /\ hist[i].post.credits = hist[i].pre.credits - 1

\* C9: immediately after a window reset the available balance of an account
\* is 3 + bonus credits, whatever daily_credits_used was before.
C9_AvailableAfterReset ==
  \A i \in 1..Len(hist) :
    LET c == hist[i]
    IN  (c.op = "resetDailyCreditsIfNeeded" /\ c.ret = 1) =>
          /\ (IF 3 - c.post.daily_credits_used > 0
              THEN 3 - c.post.daily_credits_used ELSE 0) + c.post.credits
               = 3 + c.pre.credits
          /\ c.post.credits = c.pre.credits

C9_Witness ==
  \E i \in 1..Len(hist) :
    /\ hist[i].op = "resetDailyCreditsIfNeeded" /\ hist[i].ret = 1
    /\ hist[i].pre.exists /\ hist[i].pre.daily_credits_used = 3
    /\ hist[i].post.daily_credits_used = 0

\* C10: in every reachable state the stored bonus credits of every account
\* are >= 0.
C10_CreditsNonNegative == \A u \in Users : db[u].credits >= 0

C10_Witness ==
  \E p \in Procs :
    /\ proc[p].path = "free" /\ proc[p].source = "mixed" /\ proc[p].status = 200
    /\ db[proc[p].user].credits = 0
    /\ db0[proc[p].user].credits = 1

\* C11: in every reachable state the stored daily_credits_used of every
\* account lies between 0 and 3.
C11_UsedInRange ==
  \A u \in Users :
    db[u].daily_credits_used >= 0 /\ db[u].daily_credits_used <= 3

\* a deduction drew the last daily credit and the rest from the bonus
C11_Witness ==
  \E u \in Users, p \in Procs :
    /\ proc[p].user = u /\ proc[p].path = "free" /\ proc[p].source = "mixed"
    /\ ledger[u].charged > 0
    /\ db[u].daily_credits_used = 3
    /\ db[u].credits < db0[u].credits

\* C12: in every reachable state every entry of the anonymous credit map
\* holds an integer between 0 and 5.
C12_AnonInRange ==
  \A ip \in IPs :
    anonymousCredits[ip] # NoEntry =>
      anonymousCredits[ip] >= 0 /\ anonymousCredits[ip] <= 5

\* one identifier was created by a reservation and another was exhausted
C12_Witness ==
  \E i, j \in IPs :
    /\ anon0[i] = NoEntry /\ anonymousCredits[i] = 4
    /\ anon0[j] = 1 /\ anonymousCredits[j] = 0
    /\ \E p \in Procs : proc[p].ip = j /\ proc[p].isAnonymous
                        /\ proc[p].reserved = 1

\* C13: a follow-up request without a token is denied with 401 in its first
\* step, and that step changes neither the anonymous map (no entry is
\* created) nor any account row; nothing is reserved or generated.
C13_FollowupNoToken ==
  [][\A p \in Procs :
       (/\ proc[p].pc = "idle"
        /\ proc'[p].kind = "prompt" /\ proc'[p].promptOk
        /\ proc'[p].mode = "followup" /\ proc'[p].tok = "none") =>
         /\ proc'[p].pc = "done" /\ proc'[p].status = 401
         /\ proc'[p].reserved = 0 /\ ~proc'[p].gen
         /\ db' = db
         /\ anonymousCredits' = anonymousCredits]_vars

C13_Witness ==
  \E p \in Procs :
    /\ proc[p].mode = "followup" /\ proc[p].tok = "none" /\ proc[p].promptOk
    /\ proc[p].pc = "done" /\ proc[p].status = 401
    /\ anonymousCredits[proc[p].ip] = NoEntry
    /\ db = db0

\* request p is a follow-up with a valid token for an account that is not Pro
FollowupOfFree(p) ==
  /\ proc[p].kind = "prompt" /\ proc[p].promptOk
  /\ proc[p].mode = "followup" /\ proc[p].tok = "valid"
  /\ ~db[proc[p].user].is_pro

\* C14: a follow-up request with a valid token for a non-Pro account ends in
\* 403 (500 when the read of the Pro flag itself fails); none of its steps
\* changes an account row or the anonymous map, and it reserves and
\* generates nothing.
C14_FollowupNonPro ==
  [][\A p \in Procs :
       (FollowupOfFree(p) /\ proc'[p] # proc[p]) =>
         /\ db' = db
         /\ anonymousCredits' = anonymousCredits
         /\ proc'[p].reserved = 0 /\ ~proc'[p].gen
         /\ proc'[p].pc = "done" =>
              \/ proc'[p].status = 403
              \/ proc'[p].status = 500 /\ faults' > faults]_vars

C14_Witness ==
  \E p \in Procs :
    /\ FollowupOfFree(p) /\ db[proc[p].user].exists
    /\ proc[p].pc = "done" /\ proc[p].status = 403
    /\ ~proc[p].gen /\ proc[p].reserved = 0
    /\ db = db0

\* request p carries a valid token for an account that is Pro
RequestOfPro(p) ==
  /\ proc[p].kind = "prompt" /\ proc[p].promptOk
  /\ proc[p].tok = "valid"
  /\ db[proc[p].user].is_pro

\* the steps of the free-account path that read or write the credit fields
CreditSteps == {"resetRead", "resetWrite", "hInfo", "dInfo", "dWrite"}

\* C15: a prompt request with a valid token for a Pro account never reaches
\* a step that reads or writes credits, daily_credits_used or daily_reset_at,
\* reserves nothing, is never denied with 402, and completes with
\* creditsRemaining = -1.
C15_ProSkipsReservation ==
  \A p \in Procs :
    RequestOfPro(p) =>
      /\ proc[p].pc \notin CreditSteps
      /\ proc[p].reserved = 0
      /\ proc[p].status # 402
      /\ (proc[p].pc = "done" /\ proc[p].status = 200) =>
            proc[p].credRem = UNLIMITED

Unsigned(p, tok) ==
  /\ proc[p].kind = "prompt" /\ proc[p].promptOk
  /\ proc[p].mode \in {"improve", "refine"} /\ proc[p].tok = tok

\* C17: for improve and refine a token that fails verification is handled
\* as no token. Two runs are compared, p without token and q with an invalid
\* token, of the same mode, on two identifiers whose pools start equal: both
\* take the anonymous path, charge the pool of their identifier, and end
\* with the same response and the same pool; neither is answered 401.
C17_InvalidTokenAsAnonymous ==
  /\ \A q \in Procs :
        Unsigned(q, "invalid") =>
          /\ proc[q].status # 401
          /\ proc[q].pc # "verify" => proc[q].isAnonymous
  /\ \A p, q \in Procs :
        (/\ Unsigned(p, "none") /\ Unsigned(q, "invalid")
         /\ proc[p].mode = proc[q].mode
         /\ proc[p].ip # proc[q].ip
         /\ anon0[proc[p].ip] = anon0[proc[q].ip]
         /\ proc[p].pc = "done" /\ proc[q].pc = "done"
         /\ faults = 0) =>
           /\ proc[p].isAnonymous /\ proc[q].isAnonymous
           /\ proc[q].status = proc[p].status
           /\ proc[q].credRem = proc[p].credRem
           /\ proc[q].reserved = proc[p].reserved
           /\ proc[q].path = proc[p].path
           /\ proc[q].gen = proc[p].gen
           /\ proc[q].saved = proc[p].saved
           /\ anonymousCredits[proc[q].ip] = anonymousCredits[proc[p].ip]
           /\ db = db0

C17_Witness ==
  \E p, q \in Procs :
    /\ Unsigned(p, "none") /\ Unsigned(q, "invalid")
    /\ proc[p].mode = proc[q].mode /\ proc[p].ip # proc[q].ip
    /\ anon0[proc[p].ip] = 1 /\ anon0[proc[q].ip] = 1
    /\ proc[p].status = 200 /\ proc[q].status = 200
    /\ proc[p].credRem = 0 /\ proc[q].credRem = 0
    /\ anonymousCredits[proc[p].ip] = 0 /\ anonymousCredits[proc[q].ip] = 0

\* request p reserved and was then answered 500 (provider not configured,
\* provider error or empty output)
ReservedThenFailed(p) ==
  /\ proc[p].kind = "prompt" /\ proc[p].pc = "done"
  /\ proc[p].status = 500 /\ proc[p].reserved > 0

\* the balance of u before the deduction of the only request that ran
BalanceBefore(u) ==
  IF ledger[u].resets > 0 THEN DAILY_CREDITS + db0[u].credits
  ELSE Stored(db0[u])

\* C18: when a reservation succeeded and the generation then failed, the
\* request ends with 500 and the balance stays reduced by the cost: the
\* pool of the identifier, or the stored balance of the account.
C18_NoRefund ==
  \A p \in Procs :
    ReservedThenFailed(p) =>
      /\ proc[p].path \in {"anon", "free"}
      /\ proc[p].path = "anon" =>
           anonymousCredits[proc[p].ip] =
             Remaining([pre |-> Entry(anon0[proc[p].ip])]) - proc[p].reserved
      /\ proc[p].path = "free" =>
           /\ ledger[proc[p].user].charged = proc[p].reserved
           /\ Stored(db[proc[p].user]) =
                BalanceBefore(proc[p].user) - proc[p].reserved

\* the provider failed after a deduction from the account
C18_Witness ==
  \E p \in Procs :
    /\ ReservedThenFailed(p) /\ proc[p].path = "free" /\ proc[p].gen
    /\ faults = 1
    /\ Stored(db[proc[p].user]) = Stored(db0[proc[p].user]) - 1

\* the generation call of request p has been made
Generating(p) == proc[p].gen \/ proc[p].pc = "generate"

\* C19: the generation call of a request is made only after its identity is
\* resolved, its tier is checked and its cost is reserved (or its account is
\* Pro); a request denied with 400, 401, 402 or 403 never generates.
C19_GenerationAfterReservation ==
  \A p \in Procs :
    proc[p].kind = "prompt" =>
      /\ proc[p].status \in {400, 401, 402, 403} => ~Generating(p)
      /\ Generating(p) =>
           /\ proc[p].promptOk
           /\ IF proc[p].isAnonymous THEN proc[p].tok \in {"none", "invalid"}
                                     ELSE proc[p].tok = "valid"
           /\ proc[p].mode = "followup" =>
                (proc[p].tok = "valid" /\ db[proc[p].user].is_pro)
           /\ \/ /\ proc[p].path = (IF proc[p].isAnonymous THEN "anon" ELSE "free")
                 /\ proc[p].reserved = creditCosts(proc[p].mode)
              \/ /\ proc[p].path \in {"pro", "unchecked"}
                 /\ ~proc[p].isAnonymous
                 /\ db[proc[p].user].is_pro

C19_Witness ==
  \E p \in Procs :
    /\ proc[p].kind = "prompt" /\ proc[p].gen /\ proc[p].status = 200
    /\ proc[p].path = "free" /\ proc[p].reserved = 1
    /\ ledger[proc[p].user].charged = 1

\* C20: a request that met a storage failure in its reservation stage
\* generates and answers 200 only with a confirmed reservation.
C20_StorageFailureFatal ==
  \A p \in Procs :
    (proc[p].kind = "prompt" /\ proc[p].resFault) =>
      /\ Generating(p) => proc[p].reserved > 0
      /\ proc[p].status = 200 => proc[p].reserved > 0

\* the steps of a request that read is_pro
ProReads == {"gatePro", "resPro"}

C22_HistoryAppend ==
  \A p \in Procs :
    proc[p].kind = "prompt" =>
      /\ (proc[p].saved \/ proc[p].pc = "save") =>
           (~proc[p].isAnonymous /\ proc[p].tok = "valid" /\ proc[p].gen)
      /\ (proc[p].pc = "done" /\ proc[p].gen /\ proc[p].status = 200
            /\ ~proc[p].isAnonymous) => proc[p].saved
      /\ (proc[p].pc = "done" /\ proc[p].saved) =>
           /\ proc[p].status = 200
           /\ proc[p].path = "free" =>
                /\ proc[p].credRem = db[proc[p].user].credits
                /\ ledger[proc[p].user].charged = proc[p].reserved
                /\ Stored(db[proc[p].user]) =
                     BalanceBefore(proc[p].user) - proc[p].reserved
           /\ proc[p].path \in {"pro", "unchecked"} =>
                proc[p].credRem = UNLIMITED

\* the append of a charged request failed (the only failure of the run, and
\* not one of the reservation or of the generation, which end in 500)
C22_Witness ==
  \E p \in Procs :
    /\ proc[p].kind = "prompt" /\ proc[p].pc = "done" /\ proc[p].saved
    /\ proc[p].status = 200 /\ proc[p].path = "free"
    /\ faults = 1 /\ ~proc[p].resFault
    /\ Stored(db[proc[p].user]) = Stored(db0[proc[p].user]) - 1

\* C23: for an existing account resetDailyCreditsIfNeeded, called at time t,
\* sets daily_credits_used to 0 and daily_reset_at to t + 24h and returns
\* true when daily_reset_at is null or t >= daily_reset_at; otherwise it
\* writes nothing and returns false. Every other column is kept.
C23_ResetContract ==
  \A i \in 1..Len(hist) :
    LET c == hist[i]
    IN  (c.op = "resetDailyCreditsIfNeeded" /\ c.pre.exists) =>
          IF c.pre.daily_reset_at = NULL \/ c.t >= c.pre.daily_reset_at
          THEN /\ c.ret = 1
               /\ c.post = [c.pre EXCEPT !.daily_credits_used = 0,
                                         !.daily_reset_at = c.t + DayLength]
          ELSE /\ c.ret = 0
               /\ c.post = c.pre

\* a call at the very instant of the deadline reset a used window
C23_Witness ==
  \E i \in 1..Len(hist) :
    /\ hist[i].op = "resetDailyCreditsIfNeeded" /\ hist[i].pre.exists
    /\ hist[i].t = hist[i].pre.daily_reset_at
    /\ hist[i].pre.daily_credits_used > 0
    /\ hist[i].ret = 1 /\ hist[i].post.daily_credits_used = 0
    /\ hist[i].post.daily_reset_at = hist[i].t + DayLength

\* request p is an improve or refine request with a valid token for an
\* existing account that is not Pro
RequestOfFree(p) ==
  /\ proc[p].kind = "prompt" /\ proc[p].promptOk
  /\ proc[p].mode \in {"improve", "refine"} /\ proc[p].tok = "valid"
  /\ db[proc[p].user].exists /\ ~db[proc[p].user].is_pro

\* C24: an improve or refine request that finds the available balance of a
\* non-Pro account below the cost is denied with 402, and every 402 denial
\* carries the balance the account holds at that moment, which is below the
\* cost; the denying step changes no row, and nothing was reserved or
\* generated.
C24_InsufficientDenied ==
  [][\A p \in Procs :
       LET u    == proc[p].user
           cost == creditCosts(proc[p].mode)
       IN  /\ (/\ RequestOfFree(p) /\ proc[p].pc = "hInfo"
                /\ proc'[p] # proc[p] /\ faults' = faults
                /\ Stored(db[u]) < cost) => proc'[p].status = 402
           /\ (/\ RequestOfFree(p)
                /\ proc[p].status # 402 /\ proc'[p].status = 402) =>
                 /\ Stored(db[u]) < cost
                 /\ proc'[p].credRem = Stored(db[u])
                 /\ proc'[p].reserved = 0 /\ ~proc'[p].gen
                 /\ db' = db
                 /\ anonymousCredits' = anonymousCredits]_vars

\* C25: a completed improve or refine request of a non-Pro account returns
\* as creditsRemaining the available balance the account stores after the
\* deduction, max(0, 3 - daily_credits_used) + credits.
C25_RemainingIsAvailable ==
  \A p \in Procs :
    (RequestOfFree(p) /\ proc[p].pc = "done" /\ proc[p].status = 200) =>
      proc[p].credRem = Available(db[proc[p].user])

\* C26: a top-up adds its amount on top of every update of the account.
\* Stated for the accounts that no request has deducted from: their credits
\* are the initial credits plus the amounts of the top-ups that completed,
\* plus the signup bonus once it is granted.
C26_TopUpAdditive ==
  \A u \in Users :
    (db0[u].exists /\ ledger[u].charged = 0) =>
      db[u].credits = db0[u].credits + ledger[u].added
                        + (IF ledger[u].granted > 0 THEN SIGNUP_BONUS ELSE 0)

\* C27: a prompt request whose original_prompt is missing or empty after
\* trimming is answered 400 in the step that receives it: no token
\* verification, Pro lookup or balance read follows, no balance changes and
\* no anonymous entry is created
C27_InvalidPromptRejected ==
  [][\A p \in Procs :
       (proc[p].pc = "idle" /\ proc'[p].kind = "prompt"
          /\ ~proc'[p].promptOk) =>
         /\ proc'[p].pc = "done" /\ proc'[p].status = 400
         /\ proc'[p].reserved = 0 /\ ~proc'[p].gen
         /\ db' = db /\ anonymousCredits' = anonymousCredits
         /\ ledger' = ledger]_vars

C27_Witness ==
  \E p \in Procs :
    /\ proc[p].kind = "prompt" /\ ~proc[p].promptOk
    /\ proc[p].pc = "done" /\ proc[p].status = 400
    /\ proc[p].tok = "none" /\ proc[p].mode = "improve"
    /\ anonymousCredits[proc[p].ip] = NoEntry

\* C28: a call of resetDailyCreditsIfNeeded on an existing account never
\* leaves the available balance lower than it found it, and when a call has
\* reset the window the next call for the same account at the same instant
\* writes nothing and returns false
C28_ResetMonotoneIdempotent ==
  /\ \A i \in 1..Len(hist) :
       (hist[i].op = "resetDailyCreditsIfNeeded" /\ hist[i].pre.exists) =>
         Available(hist[i].post) >= Available(hist[i].pre)
  /\ \A i \in Pairs :
       LET a == hist[i]
           b == hist[i + 1]
       IN  (/\ a.op = "resetDailyCreditsIfNeeded"
            /\ b.op = "resetDailyCreditsIfNeeded"
            /\ a.key = b.key /\ a.t = b.t
            /\ a.pre.exists /\ a.ret = 1) =>
             b.ret = 0 /\ b.post = b.pre

\* a reset that raised the balance of a used window, followed at the same
\* instant by a call that found nothing to do
C28_Witness ==
  \E i \in Pairs :
    /\ hist[i].op = "resetDailyCreditsIfNeeded"
    /\ hist[i + 1].op = "resetDailyCreditsIfNeeded"
    /\ hist[i].key = hist[i + 1].key /\ hist[i].t = hist[i + 1].t
    /\ hist[i].pre.exists /\ hist[i].ret = 1
    /\ Available(hist[i].post) > Available(hist[i].pre)
    /\ hist[i + 1].ret = 0 /\ hist[i + 1].post = hist[i].post

\* the account as resetDailyCreditsIfNeeded leaves it at the present instant
Refreshed(u) == resetDailyCreditsIfNeeded(db[u], now).row

\* C29: for every existing account that is not Pro, at every instant, the
\* unclamped sum the handler's pre-check and deductFreeUserCredits compute
\* after the reset, and the credits_remaining GET /api/me computes from the
\* stored row, all equal max(0, 3 - daily_credits_used) + credits of the
\* account after the reset
C29_AvailabilityAgrees ==
  \A u \in Users :
    (db[u].exists /\ ~db[u].is_pro) =>
      /\ TotalAvailable(getUserCreditInfo(Refreshed(u))) = Available(Refreshed(u))
      /\ MeCredits(db[u], now) = Available(Refreshed(u))
      /\ deductFreeUserCredits(db[u], 1, now).ok = (Available(Refreshed(u)) >= 1)
      /\ deductFreeUserCredits(db[u], 2, now).ok = (Available(Refreshed(u)) >= 2)

\* GET /api/me answered for an account whose used window has expired and
\* has not been reset yet, with the balance the reset would give
C29_Witness ==
  \E p \in Procs :
    LET u == proc[p].user
    IN  /\ proc[p].kind = "me" /\ proc[p].pc = "done" /\ proc[p].status = 200
        /\ db[u].exists /\ ~db[u].is_pro
        /\ db[u].daily_credits_used > 0
        /\ db[u].daily_reset_at # NULL /\ now >= db[u].daily_reset_at
        /\ proc[p].credRem = DAILY_CREDITS + db[u].credits
        /\ proc[p].credRem = TotalAvailable(getUserCreditInfo(Refreshed(u)))

\* C30: a follow-up request whose generation call is made observed
\* is_pro = true in the read of the gate and in the read of the reservation
\* stage; when the second read fails or returns false the request does not
\* go on to generate
C30_FollowupSawProTwice ==
  \A p \in Procs :
    (proc[p].kind = "prompt" /\ proc[p].mode = "followup" /\ Generating(p)) =>
      proc[p].path = "pro" /\ ~proc[p].resFault

\* the outcomes of the free path: generation only after a deduction of 1
FreeOutcome(p) ==
  /\ Generating(p) => proc[p].path = "free" /\ proc[p].reserved = 1
  /\ proc[p].pc = "done" =>
       /\ proc[p].status \in {200, 402, 500}
       /\ proc[p].status = 200 => proc[p].reserved = 1

\* C31: when the Pro read of an improve or refine request with a valid
\* token fails, the request is not answered by that step but enters the
\* free path (window reset first); such a request ends with 200 after a
\* deduction of 1, or with 402 or 500, and never generates without the
\* deduction
C31_ProReadFailureFreePath ==
  [][\A p \in Procs :
       /\ (/\ proc[p].kind = "prompt" /\ proc[p].pc = "resPro"
           /\ proc[p].mode \in {"improve", "refine"}
           /\ proc'[p].resFault) =>
            /\ proc'[p].pc = "resetRead" /\ proc'[p].ret = "hInfo"
            /\ proc'[p].status = 0 /\ proc'[p].reserved = 0
       /\ (/\ proc'[p].kind = "prompt" /\ proc'[p].tok = "valid"
           /\ proc'[p].mode \in {"improve", "refine"}
           /\ proc'[p].resFault) => FreeOutcome(p)']_vars

\* a request whose Pro read failed completed after a deduction of 1
C31_Witness ==
  \E p \in Procs :
    /\ proc[p].kind = "prompt" /\ proc[p].tok = "valid"
    /\ proc[p].mode \in {"improve", "refine"} /\ proc[p].resFault
    /\ proc[p].pc = "done" /\ proc[p].status = 200
    /\ proc[p].path = "free" /\ proc[p].reserved = 1
    /\ ledger[proc[p].user].charged = 1

\* C32: an improve or refine request of a verified caller whose account row
\* is absent, served by a configured server with no storage failure, is
\* treated as a fresh free account: it is never answered 403 or 402, its
\* availability check sees 3 credits, and it does not end in 500
C32_MissingRowServed ==
  \A p \in Procs :
    (/\ proc[p].kind = "prompt" /\ proc[p].promptOk
     /\ proc[p].mode \in {"improve", "refine"} /\ proc[p].tok = "valid"
     /\ ~db[proc[p].user].exists /\ faults = 0 /\ openai) =>
      /\ proc[p].pc \in {"dInfo", "dWrite"} => proc[p].total = DAILY_CREDITS
      /\ proc[p].status \notin {402, 403, 500}

\* C33: a step of an anonymous prompt request changes no anonymous balance
\* but that of its own identifier and changes no account row; a step of any
\* other request (valid token, or an account endpoint) creates and changes
\* no anonymous entry
C33_AnonymousIsolation ==
  [][\A p \in Procs :
       proc'[p] # proc[p] =>
         IF proc'[p].kind = "prompt" /\ proc'[p].tok # "valid"
         THEN /\ db' = db /\ ledger' = ledger
              /\ \A ip \in IPs \ {proc'[p].ip} :
                   anonymousCredits'[ip] = anonymousCredits[ip]
         ELSE anonymousCredits' = anonymousCredits]_vars

\* an anonymous request was served from its own identifier's balance while
\* the other identifier and an existing account row were left as they were
C33_Witness ==
  \E p \in Procs :
    /\ proc[p].kind = "prompt" /\ proc[p].isAnonymous
    /\ proc[p].pc = "done" /\ proc[p].status = 200
    /\ anonymousCredits[proc[p].ip] = ANONYMOUS_FREE_CREDITS - 1
    /\ \A ip \in IPs \ {proc[p].ip} : anonymousCredits[ip] = anon0[ip]
    /\ db = db0 /\ \E u \in Users : db[u].exists

\* the balance identifier ip holds, an absent entry standing for the
\* allowance it is created with
AnonBalance(ac, ip) == IF ac[ip] = NoEntry THEN ANONYMOUS_FREE_CREDITS ELSE ac[ip]

\* the anonymous requests of identifier ip that reserved their cost
AnonServed(ip) ==
  {p \in Procs : /\ proc[p].kind = "prompt" /\ proc[p].isAnonymous
                  /\ proc[p].ip = ip /\ proc[p].reserved > 0}

\* C34: no step raises the balance of an anonymous identifier or removes
\* its entry, and the anonymous requests of an identifier that reach the
\* generation call are exactly as many as the credits its balance has
\* lost, so no more than the allowance of 5 over the life of the process
C34_AnonymousNeverReplenished ==
  [][\A ip \in IPs :
       /\ AnonBalance(anonymousCredits', ip) <= AnonBalance(anonymousCredits, ip)
       /\ anonymousCredits[ip] # NoEntry => anonymousCredits'[ip] # NoEntry
       /\ Cardinality(AnonServed(ip))' =
            AnonBalance(anon0, ip) - AnonBalance(anonymousCredits', ip)
       /\ \A p \in Procs :
            (proc'[p].isAnonymous /\ proc'[p].ip = ip /\ Generating(p)') =>
              p \in AnonServed(ip)']_vars

\* an identifier with one credit left: one of its two requests was served
\* and the other was denied with an exhausted balance
C34_Witness ==
  \E ip \in IPs : \E p, q \in Procs :
    /\ anon0[ip] = 1 /\ anonymousCredits[ip] = 0
    /\ proc[p].isAnonymous /\ proc[p].ip = ip /\ proc[p].gen
    /\ proc[q].isAnonymous /\ proc[q].ip = ip
    /\ proc[q].pc = "done" /\ proc[q].status = 402 /\ ~proc[q].gen

\* the stage of the request at each position of the handler
Stage(pc) ==
  CASE pc = "idle" -> 0
    [] pc = "verify" -> 1
    [] pc \in {"gatePro", "resPro"} -> 2
    [] pc \in CreditSteps -> 3
    [] pc \in {"generate", "save"} -> 4
    [] OTHER -> 5

\* the balance request pr draws on: the pool of its identifier or the
\* stored balance of its account
Drawn(pr, ac, rows) ==
  IF pr.isAnonymous THEN AnonBalance(ac, pr.ip) ELSE Stored(rows[pr.user])

\* one step of the single prompt request p
C35_Step(p) ==
  /\ proc[p].pc = "done" => proc'[p] = proc[p]
  /\ Stage(proc'[p].pc) >= Stage(proc[p].pc)
  /\ proc'[p].status # 0 <=> proc'[p].pc = "done"
  /\ proc'[p].pc = "done" =>
       proc'[p].status \in {200, 400, 401, 402, 403, 500}
  /\ proc'[p].status = 200 => proc[p].pc \in {"generate", "save", "done"}
  /\ proc'[p].reserved # proc[p].reserved =>
       proc[p].reserved = 0 /\ proc'[p].reserved = creditCosts(proc'[p].mode)
  /\ IF proc'[p].reserved # proc[p].reserved
     THEN Drawn(proc'[p], anonymousCredits', db') =
            Drawn(proc'[p], anonymousCredits, db) - proc'[p].reserved
     ELSE Drawn(proc'[p], anonymousCredits', db') >=
            Drawn(proc'[p], anonymousCredits, db)

\* C35: when every awaited call returns or fails, a prompt request reaches
\* a terminal outcome; it answers once, with 200 or 400, 401, 402, 403 or
\* 500, and stays there; its stages never go back; it deducts at most once,
\* and then exactly the cost of its mode
C35_OneOutcome ==
  /\ \A p \in Procs : (proc[p].kind = "prompt") ~> (proc[p].pc = "done")
  /\ [][\A p \in Procs : proc'[p].kind = "prompt" => C35_Step(p)]_vars

\* a request of a free account went through every stage, deducted its cost
\* and completed
C35_Witness ==
  \E p \in Procs :
    /\ proc[p].kind = "prompt" /\ proc[p].pc = "done" /\ proc[p].status = 200
    /\ proc[p].saved /\ proc[p].path = "free"
    /\ proc[p].reserved = creditCosts(proc[p].mode)
    /\ Stored(db[proc[p].user]) = BalanceBefore(proc[p].user) - proc[p].reserved

\* C36: a step of ensureUserExists leaves an existing row as it is, also
\* when its insert meets a row created since its select; a row it creates
\* has credits 0, daily_credits_used 0, signup_bonus_given false and a
\* window that ends one day after the insert was issued; the signup request
\* answers 200 in every case
C36_EnsureUserExists ==
  [][\A p \in Procs :
       (proc'[p] # proc[p] /\ proc'[p].kind = "signup") =>
         LET u == proc'[p].user
         IN  /\ db[u].exists => db'[u] = db[u]
             /\ (~db[u].exists /\ db'[u].exists) =>
                  /\ proc[p].pc = "ensureInsert"
                  /\ proc[p].nextReset \in 0..now
                  /\ db'[u] = [exists |-> TRUE, is_pro |-> FALSE,
                               credits |-> 0, daily_credits_used |-> 0,
                               daily_reset_at |-> proc[p].nextReset + DayLength,
                               signup_bonus_given |-> FALSE]
             /\ ledger' = ledger
             /\ proc'[p].pc = "done" => proc'[p].status = 200]_vars

\* two signups of one user: the row was created once, with the initial
\* values, and both answered 200
C36_Witness ==
  \E p, q \in Procs : \E u \in Users :
    /\ p # q /\ ~db0[u].exists /\ faults = 0
    /\ proc[p].kind = "signup" /\ proc[p].user = u /\ proc[p].status = 200
    /\ proc[q].kind = "signup" /\ proc[q].user = u /\ proc[q].status = 200
    /\ db[u].exists /\ db[u].credits = 0 /\ db[u].daily_credits_used = 0
    /\ ~db[u].signup_bonus_given /\ db[u].daily_reset_at = now + DayLength

\* the window of a stored row has expired at time t
Expired(row, t) == row.daily_reset_at = NULL \/ t >= row.daily_reset_at

\* C37: a step of GET /api/me never changes daily_credits_used or
\* daily_reset_at and never lowers credits; when it writes, the row gains
\* 10 credits and signup_bonus_given = true and nothing else; an answer
\* computed from the row of a free account whose window has expired
\* reports 3 + credits; once the row is read the request answers 200 even
\* when the grant fails
C37_MeFrame ==
  [][\A p \in Procs :
       (proc'[p] # proc[p] /\ proc'[p].kind = "me") =>
         LET u == proc'[p].user
         IN  /\ db'[u].daily_credits_used = db[u].daily_credits_used
             /\ db'[u].daily_reset_at = db[u].daily_reset_at
             /\ db'[u].credits >= db[u].credits
             /\ db'[u] # db[u] =>
                  db'[u] = [db[u] EXCEPT !.credits = @ + SIGNUP_BONUS,
                                         !.signup_bonus_given = TRUE]
             /\ (/\ proc'[p].pc = "done" /\ proc'[p].status = 200
                 /\ faults' = faults /\ db[u].exists /\ ~db[u].is_pro
                 /\ Expired(db[u], now)) =>
                  proc'[p].credRem = DAILY_CREDITS + db[u].credits
             /\ (proc[p].pc \in {"grantRead", "grantWrite", "meRefresh"}
                 /\ proc'[p].pc = "done") => proc'[p].status = 200]_vars

TypeOK ==
  /\ \A u \in Users : db[u].exists \in BOOLEAN
  /\ now \in 0..MaxTime

=============================================================================
